---------------------------- MODULE Spec2Model ----------------------------
(***************************************************************************)
(* aiospamc: the SPAMC request composer (aiospamc/requests.py) and the     *)
(* SPAMD response parser (aiospamc/responses.py).                          *)
(*                                                                         *)
(* Bytes objects are sequences of integers 0..255, str objects sequences   *)
(* of code points.  Three specifications share the module:                 *)
(*   Spec        one request object, compose() called repeatedly;          *)
(*   SpecThreads two request objects built with the default header list,   *)
(*               compose() run by two threads step by step;                *)
(*   SpecParse   Response.parse() on one input buffer, statement by        *)
(*               statement.                                                *)
(***************************************************************************)
EXTENDS Integers, Sequences, FiniteSets, TLC

VARIABLES
    objs,     \* request objects: id -> [cls, verb, body, compress, list]
    lists,    \* the heap of header lists: list id -> sequence of headers
    orig,     \* the header lists as the caller built them (history)
    thr,      \* threads inside compose(): id -> [pc, body_bytes, request]
    outs,     \* per request object, the sequence of values compose() returned
    parts,    \* the fields the input buffer was built from (history)
    input,    \* the buffer handed to Response.parse
    pc,       \* the statement parse() is at
    loc,      \* parse()'s local variables
    result,   \* the Response parse() returned, if any
    error     \* the exception parse() raised, if any

vars == <<objs, lists, orig, thr, outs, parts, input, pc, loc, result, error>>

composeVars == <<objs, lists, orig, thr, outs>>
parseVars == <<parts, input, pc, loc, result, error>>

-----------------------------------------------------------------------------
(* Bounds *)

\* longest request body
MaxBodyLen == 2
\* longest caller-supplied header list
MaxHeaders == 2
\* compose() calls made on one request object
MaxCalls == 3
\* status codes 0..MaxCode are swept by the parser's inputs
MaxCode == 80

-----------------------------------------------------------------------------
(* Bytes *)

CRLF == <<13, 10>>
SP == <<32>>
COLON_SP == <<58, 32>>

RECURSIVE Concat(_)
\* b''.join(seq of bytes)
Concat(ss) == IF ss = <<>> THEN <<>> ELSE Head(ss) \o Concat(Tail(ss))

RECURSIVE DecBytes(_)
\* str(n).encode() for n >= 0
DecBytes(n) == IF n < 10 THEN <<48 + n>> ELSE DecBytes(n \div 10) \o <<48 + (n % 10)>>

RECURSIVE SeqsUpTo(_, _)
\* all sequences over S of length at most n
SeqsUpTo(S, n) ==
    IF n = 0 THEN {<<>>}
    ELSE LET shorter == SeqsUpTo(S, n - 1)
         IN  shorter \cup {Append(s, x) : s \in shorter, x \in S}

\* s[i..] (1-based), empty when i is past the end
Drop(s, i) == SubSeq(s, i, Len(s))

\* whether t occurs in s at position i
MatchAt(s, t, i) == i + Len(t) - 1 <= Len(s) /\ SubSeq(s, i, i + Len(t) - 1) = t

\* position of the first occurrence of t in s, 0 when there is none
Find(s, t) ==
    LET hits == {i \in 1..Len(s) : MatchAt(s, t, i)}
    IN  IF hits = {} THEN 0 ELSE CHOOSE i \in hits : \A j \in hits : i <= j

-----------------------------------------------------------------------------
(* zlib: the RFC 1950 container around an RFC 1951 deflate stream.  For     *)
(* inputs of at most four bytes zlib.compress emits one final block of     *)
(* fixed-Huffman literals followed by end-of-block (no match is shorter    *)
(* than three bytes), which is what Deflate builds bit by bit.             *)

\* the n-bit value v, most significant bit first
BitsMSB(v, n) == [i \in 1..n |-> (v \div (2 ^ (n - i))) % 2]

\* fixed Huffman code of a literal byte (RFC 1951, 3.2.6)
HuffCode(lit) == IF lit < 144 THEN BitsMSB(48 + lit, 8) ELSE BitsMSB(400 + (lit - 144), 9)

RECURSIVE LitBits(_)
LitBits(b) == IF b = <<>> THEN <<>> ELSE HuffCode(Head(b)) \o LitBits(Tail(b))

Bit(bits, i) == IF i <= Len(bits) THEN bits[i] ELSE 0

\* bits packed into bytes, least significant bit first, zero padded
PackBits(bits) ==
    [k \in 1..((Len(bits) + 7) \div 8) |->
        Bit(bits, 8*k - 7) + 2 * Bit(bits, 8*k - 6) + 4 * Bit(bits, 8*k - 5)
        + 8 * Bit(bits, 8*k - 4) + 16 * Bit(bits, 8*k - 3) + 32 * Bit(bits, 8*k - 2)
        + 64 * Bit(bits, 8*k - 1) + 128 * Bit(bits, 8*k)]

RECURSIVE AdlerA(_)
AdlerA(b) == IF b = <<>> THEN 1 ELSE (AdlerA(SubSeq(b, 1, Len(b) - 1)) + b[Len(b)]) % 65521

RECURSIVE AdlerB(_)
AdlerB(b) == IF b = <<>> THEN 0 ELSE (AdlerB(SubSeq(b, 1, Len(b) - 1)) + AdlerA(b)) % 65521

\* Adler-32 of b, big endian
Adler32(b) ==
    <<AdlerB(b) \div 256, AdlerB(b) % 256, AdlerA(b) \div 256, AdlerA(b) % 256>>

\* zlib.compress(b): header 78 9C, BFINAL=1 BTYPE=01, literals, EOB, Adler-32
Deflate(b) ==
    <<120, 156>> \o PackBits(<<1, 1, 0>> \o LitBits(b) \o BitsMSB(0, 7)) \o Adler32(b)

\* the bits of a byte sequence, least significant bit of each byte first
UnpackBits(z) == [i \in 1..(8 * Len(z)) |-> (z[((i - 1) \div 8) + 1] \div (2 ^ ((i - 1) % 8))) % 2]

\* the value of bits[i..i+n-1] read most significant bit first
ReadMSB(bits, i, n) ==
    IF n = 7 THEN 64*Bit(bits, i) + 32*Bit(bits, i+1) + 16*Bit(bits, i+2) + 8*Bit(bits, i+3)
                  + 4*Bit(bits, i+4) + 2*Bit(bits, i+5) + Bit(bits, i+6)
    ELSE IF n = 8 THEN 128*Bit(bits, i) + 64*Bit(bits, i+1) + 32*Bit(bits, i+2)
                  + 16*Bit(bits, i+3) + 8*Bit(bits, i+4) + 4*Bit(bits, i+5)
                  + 2*Bit(bits, i+6) + Bit(bits, i+7)
    ELSE 256*Bit(bits, i) + 128*Bit(bits, i+1) + 64*Bit(bits, i+2) + 32*Bit(bits, i+3)
                  + 16*Bit(bits, i+4) + 8*Bit(bits, i+5) + 4*Bit(bits, i+6)
                  + 2*Bit(bits, i+7) + Bit(bits, i+8)

RECURSIVE InflateLits(_, _, _)
\* decode fixed-Huffman symbols from bit i on; acc holds the literals so far.
\* ok is FALSE on a truncated stream or on a length code (not produced here).
InflateLits(bits, i, acc) ==
    IF i + 6 > Len(bits) THEN [ok |-> FALSE, data |-> <<>>]
    ELSE IF ReadMSB(bits, i, 7) = 0 THEN [ok |-> TRUE, data |-> acc]
    ELSE IF ReadMSB(bits, i, 7) <= 23 THEN [ok |-> FALSE, data |-> <<>>]
    ELSE IF i + 7 > Len(bits) THEN [ok |-> FALSE, data |-> <<>>]
    ELSE IF ReadMSB(bits, i, 8) >= 48 /\ ReadMSB(bits, i, 8) <= 191
         THEN InflateLits(bits, i + 8, Append(acc, ReadMSB(bits, i, 8) - 48))
    ELSE IF ReadMSB(bits, i, 8) >= 192 /\ ReadMSB(bits, i, 8) <= 199
         THEN [ok |-> FALSE, data |-> <<>>]
    ELSE IF i + 8 > Len(bits) THEN [ok |-> FALSE, data |-> <<>>]
    ELSE InflateLits(bits, i + 9, Append(acc, ReadMSB(bits, i, 9) - 400 + 144))

\* zlib.decompress(z) for streams of one final fixed-Huffman block of literals:
\* [ok, data]; ok is FALSE for a bad header, a bad block or a bad checksum.
Inflate(z) ==
    IF Len(z) < 6 THEN [ok |-> FALSE, data |-> <<>>]
    ELSE IF z[1] % 16 # 8 \/ z[1] \div 16 > 7 \/ (256 * z[1] + z[2]) % 31 # 0
            \/ (z[2] \div 32) % 2 # 0
         THEN [ok |-> FALSE, data |-> <<>>]
    ELSE LET bits == UnpackBits(SubSeq(z, 3, Len(z) - 4))
             r == InflateLits(bits, 4, <<>>)
         IN  IF bits[1] # 1 \/ bits[2] # 1 \/ bits[3] # 0 THEN [ok |-> FALSE, data |-> <<>>]
             ELSE IF ~r.ok THEN r
             ELSE IF Adler32(r.data) # SubSeq(z, Len(z) - 3, Len(z))
                  THEN [ok |-> FALSE, data |-> <<>>]
             ELSE r

-----------------------------------------------------------------------------
(* Headers (aiospamc.headers).  A header object is [kind, num, text]:       *)
(* ContentLength carries its length in num, User its name in text.         *)

ContentLength(n) == [kind |-> "ContentLength", num |-> n, text |-> <<>>]
Compress == [kind |-> "Compress", num |-> 0, text |-> <<>>]
User(name) == [kind |-> "User", num |-> 0, text |-> name]

\* the wire name of a header kind
HeaderName(h) ==
    CASE h.kind = "ContentLength" ->
             <<67, 111, 110, 116, 101, 110, 116, 45, 108, 101, 110, 103, 116, 104>>
      [] h.kind = "Compress" -> <<67, 111, 109, 112, 114, 101, 115, 115>>
      [] h.kind = "User" -> <<85, 115, 101, 114>>

\* the wire value of a header: the length in decimal, "zlib", the user name
HeaderValue(h) ==
    CASE h.kind = "ContentLength" -> DecBytes(h.num)
      [] h.kind = "Compress" -> <<122, 108, 105, 98>>
      [] h.kind = "User" -> h.text

\* bytes(header): b'Name: value\r\n'
HeaderBytes(h) == HeaderName(h) \o COLON_SP \o HeaderValue(h) \o CRLF

\* b''.join(map(bytes, headers))
JoinHeaders(hs) == Concat([i \in 1..Len(hs) |-> HeaderBytes(hs[i])])

-----------------------------------------------------------------------------
(* Requests (aiospamc/requests.py) *)

\* SpamdRequest.protocol, encoded: b'SPAMC/1.5'
protocol == <<83, 80, 65, 77, 67, 47, 49, 46, 53>>

Verbs == {"CHECK", "HEADERS", "PING", "PROCESS", "REPORT", "REPORT_IFSPAM", "SYMBOLS", "TELL"}

\* verb.encode()
VerbBytes(v) ==
    CASE v = "CHECK" -> <<67, 72, 69, 67, 75>>
      [] v = "HEADERS" -> <<72, 69, 65, 68, 69, 82, 83>>
      [] v = "PING" -> <<80, 73, 78, 71>>
      [] v = "PROCESS" -> <<80, 82, 79, 67, 69, 83, 83>>
      [] v = "REPORT" -> <<82, 69, 80, 79, 82, 84>>
      [] v = "REPORT_IFSPAM" -> <<82, 69, 80, 79, 82, 84, 95, 73, 70, 83, 80, 65, 77>>
      [] v = "SYMBOLS" -> <<83, 89, 77, 66, 79, 76, 83>>
      [] v = "TELL" -> <<84, 69, 76, 76>>

\* a body is None or a bytes object
None == [present |-> FALSE, bytes |-> <<>>]
Bytes(b) == [present |-> TRUE, bytes |-> b]

\* Python truth of self.body: None and b'' are false
Truthy(body) == body.present /\ body.bytes # <<>>

\* lines 34-38: body_bytes
BodyBytes(r) == IF r.compress THEN Deflate(r.body.bytes) ELSE r.body.bytes

\* line 35: self.headers.append(Compress()), taken when body and compress
AppendCompress(r, hs) == IF Truthy(r.body) /\ r.compress THEN Append(hs, Compress) ELSE hs

\* a slip: the length of the body as given, not of the bytes sent
AppendContentLengthRaw(r, hs) ==
    IF Truthy(r.body) THEN Append(hs, ContentLength(Len(r.body.bytes)))
    ELSE Append(hs, ContentLength(0))

\* lines 39 and 45: self.headers.append(ContentLength(...))
AppendContentLength(r, hs) ==
    IF Truthy(r.body) THEN Append(hs, ContentLength(Len(BodyBytes(r))))
    ELSE Append(hs, ContentLength(0))

\* lines 40-48: request_with_body / request_without_body filled in
FormatRequest(r, hs) ==
    IF Truthy(r.body)
    THEN VerbBytes(r.verb) \o SP \o protocol \o CRLF \o JoinHeaders(hs) \o CRLF \o BodyBytes(r)
    ELSE VerbBytes(r.verb) \o SP \o protocol \o CRLF \o JoinHeaders(hs) \o CRLF

\* list.pop(); the list is never empty where compose() pops
Pop(hs) == SubSeq(hs, 1, Len(hs) - 1)

\* lines 50-51: pop the Content-length header, only when there is a body
PopContentLength(r, hs) == IF Truthy(r.body) THEN Pop(hs) ELSE hs

\* lines 52-53: pop the Compress header, whenever compress is set
PopCompress(r, hs) == IF r.compress THEN Pop(hs) ELSE hs

\* the header list while the request is formatted (lines 33-39, 45)
ComposeAppended(r, hs) == AppendContentLength(r, AppendCompress(r, hs))

\* the header list compose() leaves behind (lines 50-53)
ComposePopped(r, hs) == PopCompress(r, PopContentLength(r, hs))

-----------------------------------------------------------------------------
(* Spec: one request object, its header list supplied by the caller *)

BodyAlphabet == {97, 200}
Bodies == {None} \cup {Bytes(b) : b \in SeqsUpTo(BodyAlphabet, MaxBodyLen)}

\* headers a caller may pass: a user name, and a Content-length of its own
CallerHeaders == {User(<<117>>), ContentLength(7)}
HeaderLists == SeqsUpTo(CallerHeaders, MaxHeaders)

NoThreads == <<>>
ParseIdle ==
    /\ parts = <<>>
    /\ input = <<>>
    /\ pc = "idle"
    /\ loc = <<>>
    /\ result = <<>>
    /\ error = <<>>

\* SpamdRequest.__init__ (lines 16-22) with every argument given
Init ==
    /\ \E v \in Verbs, b \in Bodies, c \in BOOLEAN :
          objs = <<[cls |-> "SpamdRequest", verb |-> v, body |-> b, compress |-> c,
                    list |-> 1]>>
    /\ \E H \in HeaderLists : lists = <<H>>
    /\ orig = lists
    /\ thr = NoThreads
    /\ outs = <<(<<>>)>>
    /\ ParseIdle

\* compose() (lines 30-55), called as bytes(request) or directly
Compose(o) ==
    /\ Len(outs[o]) < MaxCalls
    /\ LET r == objs[o]
           appended == ComposeAppended(r, lists[r.list])
       IN  /\ lists' = [lists EXCEPT ![r.list] = ComposePopped(r, appended)]
           /\ outs' = [outs EXCEPT ![o] = Append(@, FormatRequest(r, appended))]
    /\ UNCHANGED <<objs, orig, thr>>
    /\ UNCHANGED parseVars

Next == \E o \in DOMAIN objs : Compose(o)

Spec == Init /\ [][Next]_vars

-----------------------------------------------------------------------------
(* SpecThreads: two request objects built without a header list, so each    *)
(* holds the default list of its class's __init__ (lines 16, 58, 72, 86);  *)
(* thread t runs compose() once on object t, one statement at a time.      *)

ThreadClasses == {"Ping", "Check", "Report"}

\* the verb each subclass passes to SpamdRequest.__init__
VerbOf(cls) ==
    CASE cls = "Ping" -> "PING"
      [] cls = "Check" -> "CHECK"
      [] cls = "Report" -> "REPORT"

\* Ping() takes neither message nor compress; the others take both
DefaultBuilt ==
    {[cls |-> "Ping", verb |-> VerbOf("Ping"), body |-> None, compress |-> FALSE,
      list |-> "Ping"]}
    \cup {[cls |-> c, verb |-> VerbOf(c), body |-> Bytes(b), compress |-> z, list |-> c] :
            c \in ThreadClasses \ {"Ping"}, b \in {<<>>, <<97>>}, z \in BOOLEAN}

InitThreads ==
    /\ \E a \in DefaultBuilt, b \in DefaultBuilt : objs = <<a, b>>
    /\ lists = [c \in ThreadClasses |-> <<>>]
    /\ orig = lists
    /\ thr = [t \in 1..2 |-> [pc |-> "L33", request |-> <<>>]]
    /\ outs = <<(<<>>), (<<>>)>>
    /\ ParseIdle

\* thread t moves from statement `from` to statement `to`
Goto(t, from, to) ==
    /\ thr[t].pc = from
    /\ thr' = [thr EXCEPT ![t].pc = to]

\* lines 33-38: the Compress header is appended, the body compressed
StepAppendCompress(t) ==
    /\ Goto(t, "L33", "L39")
    /\ lists' = [lists EXCEPT ![objs[t].list] = AppendCompress(objs[t], @)]
    /\ UNCHANGED <<objs, orig, outs>>
    /\ UNCHANGED parseVars

\* lines 39 and 45: the Content-length header is appended
StepAppendContentLength(t) ==
    /\ Goto(t, "L39", "L40")
    /\ lists' = [lists EXCEPT ![objs[t].list] = AppendContentLength(objs[t], @)]
    /\ UNCHANGED <<objs, orig, outs>>
    /\ UNCHANGED parseVars

\* lines 40-48: the request is formatted from the list as it is now
StepFormat(t) ==
    /\ thr[t].pc = "L40"
    /\ thr' = [thr EXCEPT ![t].pc = "L50",
                          ![t].request = FormatRequest(objs[t], lists[objs[t].list])]
    /\ UNCHANGED <<objs, lists, orig, outs>>
    /\ UNCHANGED parseVars

\* lines 50-51
StepPopContentLength(t) ==
    /\ Goto(t, "L50", "L52")
    /\ lists' = [lists EXCEPT ![objs[t].list] = PopContentLength(objs[t], @)]
    /\ UNCHANGED <<objs, orig, outs>>
    /\ UNCHANGED parseVars

\* lines 52-53
StepPopCompress(t) ==
    /\ Goto(t, "L52", "L55")
    /\ lists' = [lists EXCEPT ![objs[t].list] = PopCompress(objs[t], @)]
    /\ UNCHANGED <<objs, orig, outs>>
    /\ UNCHANGED parseVars

\* line 55
StepReturn(t) ==
    /\ Goto(t, "L55", "done")
    /\ outs' = [outs EXCEPT ![t] = Append(@, thr[t].request)]
    /\ UNCHANGED <<objs, lists, orig>>
    /\ UNCHANGED parseVars

NextThreads ==
    \E t \in 1..2 :
        \/ StepAppendCompress(t)
        \/ StepAppendContentLength(t)
        \/ StepFormat(t)
        \/ StepPopContentLength(t)
        \/ StepPopCompress(t)
        \/ StepReturn(t)

SpecThreads == InitThreads /\ [][NextThreads]_vars

-----------------------------------------------------------------------------
(* Properties of compose() *)

\* the request line b'VERB SPAMC/1.5\r\n'
RequestLine(v) == VerbBytes(v) \o <<32, 83, 80, 65, 77, 67, 47, 49, 46, 53, 13, 10>>

\* b'Content-length: ' n b'\r\n'
ContentLengthLine(n) ==
    <<67, 111, 110, 116, 101, 110, 116, 45, 108, 101, 110, 103, 116, 104, 58, 32>>
    \o DecBytes(n) \o CRLF

\* b'Compress: zlib\r\n'
CompressLine == <<67, 111, 109, 112, 114, 101, 115, 115, 58, 32, 122, 108, 105, 98, 13, 10>>

\* C1: compose() leaves the request's header list as the caller built it,
\* after every call.
C1_HeadersUnchanged == lists = orig

\* C2: every two compose() calls on one request return the same bytes.
C2_Idempotent ==
    \A o \in DOMAIN outs : \A i \in DOMAIN outs[o], j \in DOMAIN outs[o] :
        outs[o][i] = outs[o][j]

\* C3: each compose() call of two default-built requests returns the bytes it
\* would return if it were the only call ever made (on a fresh, empty list),
\* whatever the interleaving of the two threads.
C3_Isolated ==
    \A o \in DOMAIN outs : \A i \in DOMAIN outs[o] :
        outs[o][i] = RequestLine(objs[o].verb)
                     \o (IF Truthy(objs[o].body) /\ objs[o].compress THEN CompressLine ELSE <<>>)
                     \o ContentLengthLine(IF Truthy(objs[o].body) THEN Len(BodyBytes(objs[o])) ELSE 0)
                     \o CRLF
                     \o (IF Truthy(objs[o].body) THEN BodyBytes(objs[o]) ELSE <<>>)

\* C4: with the body absent or empty, every compose() call returns the request
\* line, the caller's headers in order, one Content-length: 0, and CRLF; no
\* Compress header and no body.
C4_EmptyBodyOutput ==
    \A o \in DOMAIN outs : \A i \in DOMAIN outs[o] :
        ~Truthy(objs[o].body) =>
            outs[o][i] = RequestLine(objs[o].verb) \o JoinHeaders(orig[objs[o].list])
                         \o ContentLengthLine(0) \o CRLF

\* the body compose() must emit: B, or deflate(B) when compress is set
Emitted(r) == IF r.compress THEN Deflate(r.body.bytes) ELSE r.body.bytes

\* C5: with a non-empty body B, every compose() call returns the request line,
\* the caller's headers in order, a Compress header iff compress is set, one
\* Content-length header giving len(E), CRLF, and E, where E is B or
\* deflate(B), and deflate(B) inflates back to B.
C5_BodyOutput ==
    \A o \in DOMAIN outs : \A i \in DOMAIN outs[o] :
        Truthy(objs[o].body) =>
            /\ outs[o][i] = RequestLine(objs[o].verb) \o JoinHeaders(orig[objs[o].list])
                            \o (IF objs[o].compress THEN CompressLine ELSE <<>>)
                            \o ContentLengthLine(Len(Emitted(objs[o]))) \o CRLF
                            \o Emitted(objs[o])
            /\ objs[o].compress =>
                   /\ Inflate(Emitted(objs[o])) = [ok |-> TRUE, data |-> objs[o].body.bytes]
                   /\ Len(Emitted(objs[o])) # Len(objs[o].body.bytes)

\* a compressed request with caller headers, composed twice
C5_Witness ==
    \E o \in DOMAIN outs :
        /\ Truthy(objs[o].body) /\ objs[o].compress
        /\ Len(orig[objs[o].list]) = 2
        /\ Len(outs[o]) >= 2

-----------------------------------------------------------------------------
(* str: UTF-8 decoding, whitespace, digits *)

IsCont(b) == b >= 128 /\ b <= 191

RECURSIVE Utf8From(_, _, _)
\* bytes.decode() from byte i on: [ok, text]; ok is FALSE where Python raises
\* UnicodeDecodeError (a stray or missing continuation byte, an overlong
\* form, a surrogate, a lead byte above F4)
Utf8From(b, i, acc) ==
    IF i > Len(b) THEN [ok |-> TRUE, text |-> acc]
    ELSE IF b[i] < 128 THEN Utf8From(b, i + 1, Append(acc, b[i]))
    ELSE IF b[i] >= 194 /\ b[i] <= 223
         THEN IF i + 1 <= Len(b) /\ IsCont(b[i + 1])
              THEN Utf8From(b, i + 2, Append(acc, (b[i] - 192) * 64 + (b[i + 1] - 128)))
              ELSE [ok |-> FALSE, text |-> <<>>]
    ELSE IF b[i] >= 224 /\ b[i] <= 239
         THEN IF /\ i + 2 <= Len(b) /\ IsCont(b[i + 1]) /\ IsCont(b[i + 2])
                 /\ (b[i] = 224 => b[i + 1] >= 160)
                 /\ (b[i] = 237 => b[i + 1] <= 159)
              THEN Utf8From(b, i + 3, Append(acc, (b[i] - 224) * 4096 + (b[i + 1] - 128) * 64
                                                   + (b[i + 2] - 128)))
              ELSE [ok |-> FALSE, text |-> <<>>]
    ELSE IF b[i] >= 240 /\ b[i] <= 244
         THEN IF /\ i + 3 <= Len(b) /\ IsCont(b[i + 1]) /\ IsCont(b[i + 2]) /\ IsCont(b[i + 3])
                 /\ (b[i] = 240 => b[i + 1] >= 144)
                 /\ (b[i] = 244 => b[i + 1] <= 143)
              THEN Utf8From(b, i + 4, Append(acc, (b[i] - 240) * 262144 + (b[i + 1] - 128) * 4096
                                                   + (b[i + 2] - 128) * 64 + (b[i + 3] - 128)))
              ELSE [ok |-> FALSE, text |-> <<>>]
    ELSE [ok |-> FALSE, text |-> <<>>]

\* response.decode() (line 87)
Utf8Decode(b) == Utf8From(b, 1, <<>>)

\* the code points \s matches in a str pattern, and str.strip() removes
IsSpace(c) ==
    c \in (9..13) \cup (28..32) \cup {133, 160, 5760} \cup (8192..8202)
          \cup {8232, 8233, 8239, 8287, 12288}

\* \d, for the ASCII digits (the inputs hold no other decimal digit)
IsDigit(c) == c >= 48 /\ c <= 57

RECURSIVE SkipSpace(_, _)
\* the first index from i on that holds no whitespace: \s* and \s+ are greedy
SkipSpace(t, i) == IF i <= Len(t) /\ IsSpace(t[i]) THEN SkipSpace(t, i + 1) ELSE i

RECURSIVE SkipDigits(_, _)
\* the first index from i on that holds no digit: \d+ is greedy
SkipDigits(t, i) == IF i <= Len(t) /\ IsDigit(t[i]) THEN SkipDigits(t, i + 1) ELSE i

RECURSIVE SkipLine(_, _)
\* the first index from i on that holds a line feed: . matches all but \n
SkipLine(t, i) == IF i <= Len(t) /\ t[i] # 10 THEN SkipLine(t, i + 1) ELSE i

RECURSIVE Strip(_)
\* str.strip()
Strip(t) ==
    IF t = <<>> THEN t
    ELSE IF IsSpace(t[1]) THEN Strip(Tail(t))
    ELSE IF IsSpace(t[Len(t)]) THEN Strip(SubSeq(t, 1, Len(t) - 1))
    ELSE t

RECURSIVE ToInt(_)
\* int(digits)
ToInt(d) == IF d = <<>> THEN 0 ELSE 10 * ToInt(SubSeq(d, 1, Len(d) - 1)) + (d[Len(d)] - 48)

-----------------------------------------------------------------------------
(* Responses (aiospamc/responses.py) *)

\* the members of Status (lines 34-50)
StatusCodes == {0} \cup (64..79)

\* a slip: EX_PROTOCOL given the exception of the line above it
StatusExceptionSlip(code) ==
    CASE code = 0 -> "None"
      [] code = 64 -> "UsageException"
      [] code = 65 -> "DataErrorException"
      [] code = 66 -> "NoInputException"
      [] code = 67 -> "NoUserException"
      [] code = 68 -> "NoHostException"
      [] code = 69 -> "UnavailableException"
      [] code = 70 -> "InternalSoftwareException"
      [] code = 71 -> "OSErrorException"
      [] code = 72 -> "OSFileException"
      [] code = 73 -> "CantCreateException"
      [] code = 74 -> "IOErrorException"
      [] code = 75 -> "TemporaryFailureException"
      [] code = 76 -> "TemporaryFailureException"
      [] code = 77 -> "NoPermissionException"
      [] code = 78 -> "ConfigException"
      [] code = 79 -> "TimeoutException"

\* Status(code).exception (lines 34-50)
StatusException(code) ==
    CASE code = 0 -> "None"
      [] code = 64 -> "UsageException"
      [] code = 65 -> "DataErrorException"
      [] code = 66 -> "NoInputException"
      [] code = 67 -> "NoUserException"
      [] code = 68 -> "NoHostException"
      [] code = 69 -> "UnavailableException"
      [] code = 70 -> "InternalSoftwareException"
      [] code = 71 -> "OSErrorException"
      [] code = 72 -> "OSFileException"
      [] code = 73 -> "CantCreateException"
      [] code = 74 -> "IOErrorException"
      [] code = 75 -> "TemporaryFailureException"
      [] code = 76 -> "ProtocolException"
      [] code = 77 -> "NoPermissionException"
      [] code = 78 -> "ConfigException"
      [] code = 79 -> "TimeoutException"

\* a slip: the status is never checked
RaisesNever(code) == FALSE

\* line 101: if status_code.exception
RaisesOnStatus(code) == StatusException(code) # "None"

\* _response_pattern.match(text) (lines 68-73, 90): [ok, version, status,
\* message].  Every quantifier of the pattern is greedy and is followed by a
\* character it cannot match, so the match, when there is one, is the scan.
PatternMatch(t) ==
    LET a == SkipSpace(t, 1)
        b == SkipDigits(t, a + 6)
        c == SkipDigits(t, b + 1)
        d == SkipSpace(t, c)
        e == SkipDigits(t, d)
        f == SkipSpace(t, e)
        g == SkipLine(t, f)
    IN  IF /\ MatchAt(t, <<83, 80, 65, 77, 68, 47>>, a)
           /\ b > a + 6 /\ b <= Len(t) /\ t[b] = 46
           /\ c > b + 1
           /\ d > c
           /\ e > d
           /\ f > e
        THEN [ok |-> TRUE, version |-> SubSeq(t, a + 6, c - 1), status |-> SubSeq(t, d, e - 1),
              message |-> SubSeq(t, f, g - 1)]
        ELSE [ok |-> FALSE, version |-> <<>>, status |-> <<>>, message |-> <<>>]

\* position of the last occurrence of t in s, 0 when there is none
FindLast(s, t) ==
    LET hits == {i \in 1..Len(s) : MatchAt(s, t, i)}
    IN  IF hits = {} THEN 0 ELSE CHOOSE i \in hits : \A j \in hits : i >= j

\* a slip: rsplit, the buffer split at its last blank line
SplitLast(buf) ==
    LET i == FindLast(buf, <<13, 10, 13, 10>>)
    IN  IF i = 0 THEN [head |-> buf, body |-> None]
        ELSE [head |-> SubSeq(buf, 1, i - 1), body |-> Bytes(Drop(buf, i + 4))]

\* response.split(b'\r\n\r\n', 1) (line 84): [head, body]
SplitFirst(buf) ==
    LET i == Find(buf, <<13, 10, 13, 10>>)
    IN  IF i = 0 THEN [head |-> buf, body |-> None]
        ELSE [head |-> SubSeq(buf, 1, i - 1), body |-> Bytes(Drop(buf, i + 4))]

RECURSIVE SplitLines(_)
\* response.split(b'\r\n') (line 85)
SplitLines(b) ==
    LET i == Find(b, CRLF)
    IN  IF i = 0 THEN <<b>> ELSE <<SubSeq(b, 1, i - 1)>> \o SplitLines(Drop(b, i + 2))

\* one raw header line as b'Name: value': [ok, kind, name, value].  A line
\* without a colon is malformed; a Content-length that is no decimal number
\* fails to decode.  Any other name is kept as it is.
ParseHeaderLine(line) ==
    LET i == Find(line, <<58>>)
        name == SubSeq(line, 1, i - 1)
        value == Strip(Drop(line, i + 1))
    IN  IF i = 0 THEN [ok |-> FALSE, kind |-> "BadResponse", name |-> <<>>, value |-> <<>>]
        ELSE IF /\ name = <<67, 111, 110, 116, 101, 110, 116, 45, 108, 101, 110, 103, 116, 104>>
                /\ (value = <<>> \/ \E k \in DOMAIN value : ~IsDigit(value[k]))
             THEN [ok |-> FALSE, kind |-> "HeaderDecodeError", name |-> name, value |-> value]
        ELSE [ok |-> TRUE, kind |-> "", name |-> name, value |-> value]

\* cls._parse_headers(headers) (line 104): [ok, kind, headers]; the first
\* line that fails aborts the parse
parse_headers(hlines) ==
    LET parsed == [k \in DOMAIN hlines |-> ParseHeaderLine(hlines[k])]
        bad == {k \in DOMAIN hlines : ~parsed[k].ok}
    IN  IF bad = {}
        THEN [ok |-> TRUE, kind |-> "",
              headers |-> [k \in DOMAIN hlines |-> [name |-> parsed[k].name,
                                                     value |-> parsed[k].value]]]
        ELSE [ok |-> FALSE, kind |-> parsed[CHOOSE k \in bad : \A j \in bad : k <= j].kind,
              headers |-> <<>>]

\* whether a Compress header is among the parsed headers
HasCompress(hs) ==
    \E k \in DOMAIN hs : hs[k].name = <<67, 111, 109, 112, 114, 101, 115, 115>>

\* cls._parse_body(body, headers) (line 105): [ok, body]; a non-empty body
\* under a Compress header is inflated, any other body is kept as it is
parse_body(body, hs) ==
    IF Truthy(body) /\ HasCompress(hs)
    THEN [ok |-> Inflate(body.bytes).ok, body |-> Bytes(Inflate(body.bytes).data)]
    ELSE [ok |-> TRUE, body |-> body]

\* the kinds a failed inflate may be reported as
InflateErrorKinds == {"BadResponse", "DecompressError"}

NoResponse ==
    [present |-> FALSE, protocol_version |-> <<>>, status_code |-> -1, message |-> <<>>,
     body |-> None, headers |-> <<>>]

\* Response.__init__ (lines 115-138)
Response(version, code, message, body, hs) ==
    [present |-> TRUE, protocol_version |-> version, status_code |-> code,
     message |-> message, body |-> body, headers |-> hs]

NoError == [present |-> FALSE, kind |-> "", payload |-> <<>>]
Raised(kind, payload) == [present |-> TRUE, kind |-> kind, payload |-> payload]

-----------------------------------------------------------------------------
(* SpecParse: the input buffers *)

\* a buffer: lead proto / version sep1 code sep2 msg, a CRLF before each
\* header line, and with term the blank line and the body after it
Build(p) ==
    p.lead \o p.proto \o <<47>> \o p.version \o p.sep1 \o p.code \o p.sep2 \o p.msg
    \o Concat([k \in DOMAIN p.hdrs |-> CRLF \o p.hdrs[k]])
    \o (IF p.term THEN CRLF \o CRLF \o p.tail ELSE <<>>)

SPAMD == <<83, 80, 65, 77, 68>>
V15 == <<49, 46, 53>>

\* b'EX_OK', b'Remote error', b'Remote error ' (a trailing blank)
SweepMsgs ==
    {<<69, 88, 95, 79, 75>>,
     <<82, 101, 109, 111, 116, 101, 32, 101, 114, 114, 111, 114>>,
     <<82, 101, 109, 111, 116, 101, 32, 101, 114, 114, 111, 114, 32>>}

\* header blocks that parse: none, Content-length: 5, Compress: zlib,
\* X-Foo: bar then Content-length: 5
GoodHeaderBlocks ==
    {<<>>,
     <<(<<67, 111, 110, 116, 101, 110, 116, 45, 108, 101, 110, 103, 116, 104, 58, 32, 53>>)>>,
     <<(<<67, 111, 109, 112, 114, 101, 115, 115, 58, 32, 122, 108, 105, 98>>)>>,
     <<(<<88, 45, 70, 111, 111, 58, 32, 98, 97, 114>>),
       (<<67, 111, 110, 116, 101, 110, 116, 45, 108, 101, 110, 103, 116, 104, 58, 32, 53>>)>>}

\* header blocks that do not: garbage, Content-length: x
BadHeaderBlocks ==
    {<<(<<103, 97, 114, 98, 97, 103, 101>>)>>,
     <<(<<67, 111, 110, 116, 101, 110, 116, 45, 108, 101, 110, 103, 116, 104, 58, 32, 120>>)>>}

\* what follows the head: nothing, or the blank line and a body: empty,
\* b'hello', zlib.compress(b'a'), b'a\r\n\r\nb'
SweepTails ==
    {[term |-> FALSE, tail |-> <<>>],
     [term |-> TRUE, tail |-> <<>>],
     [term |-> TRUE, tail |-> <<104, 101, 108, 108, 111>>],
     [term |-> TRUE, tail |-> Deflate(<<97>>)],
     [term |-> TRUE, tail |-> <<97, 13, 10, 13, 10, 98>>]}

\* well-shaped status lines carrying every code 0..MaxCode
SweepParts ==
    {[lead |-> <<>>, proto |-> SPAMD, version |-> V15, sep1 |-> SP, code |-> DecBytes(c),
      sep2 |-> SP, msg |-> m, hdrs |-> h, term |-> t.term, tail |-> t.tail] :
        c \in 0..MaxCode, m \in SweepMsgs, h \in GoodHeaderBlocks \cup BadHeaderBlocks,
        t \in SweepTails}

\* status lines varied field by field: lead b'', b' ', b'NOT', b'\xff', a
\* no-break space; proto SPAMD, SPAMC; version 1.5, 15, 1.; separators b' ',
\* b'', b'\t '; code 0, 076, 5, none, 7x; message ok, none, a\nb
ShapeParts ==
    {[lead |-> l, proto |-> pr, version |-> v, sep1 |-> s1, code |-> c, sep2 |-> s2,
      msg |-> m, hdrs |-> <<>>, term |-> t, tail |-> <<>>] :
        l \in {<<>>, <<32>>, <<78, 79, 84>>, <<255>>, <<194, 160>>},
        pr \in {SPAMD, <<83, 80, 65, 77, 67>>},
        v \in {V15, <<49, 53>>, <<49, 46>>},
        s1 \in {<<32>>, <<>>, <<9, 32>>},
        c \in {<<48>>, <<48, 55, 54>>, <<53>>, <<>>, <<55, 120>>},
        s2 \in {<<32>>, <<>>},
        m \in {<<111, 107>>, <<>>, <<97, 10, 98>>},
        t \in BOOLEAN}

NoLocals ==
    [body |-> None, first |-> <<>>, hlines |-> <<>>, text |-> <<>>, version |-> <<>>,
     status |-> <<>>, message |-> <<>>, status_code |-> -1, headers |-> <<>>]

InitParse ==
    /\ objs = <<>> /\ lists = <<>> /\ orig = <<>> /\ thr = NoThreads /\ outs = <<>>
    /\ parts \in SweepParts \cup ShapeParts
    /\ input = Build(parts)
    /\ pc = "L84"
    /\ loc = NoLocals
    /\ result = NoResponse
    /\ error = NoError

\* raise: parse() ends without a Response
Raise(kind, payload) ==
    /\ pc' = "failed"
    /\ error' = Raised(kind, payload)
    /\ UNCHANGED <<parts, input, loc, result>>

\* lines 84-85: the buffer is split into first line, header lines and body
ParseSplit ==
    /\ pc = "L84"
    /\ LET sp == SplitFirst(input)
           ls == SplitLines(sp.head)
       IN  loc' = [loc EXCEPT !.body = sp.body, !.first = Head(ls), !.hlines = Tail(ls)]
    /\ pc' = "L87"
    /\ UNCHANGED <<parts, input, result, error>>
    /\ UNCHANGED composeVars

\* line 87: response.decode()
ParseDecode ==
    /\ pc = "L87"
    /\ IF Utf8Decode(loc.first).ok
       THEN /\ loc' = [loc EXCEPT !.text = Utf8Decode(loc.first).text]
            /\ pc' = "L90"
            /\ UNCHANGED <<parts, input, result, error>>
       ELSE Raise("UnicodeDecodeError", <<>>)
    /\ UNCHANGED composeVars

\* lines 90-95: the status line is matched, or BadResponse raised
ParseMatch ==
    /\ pc = "L90"
    /\ LET m == PatternMatch(loc.text)
       IN  IF m.ok
           THEN /\ loc' = [loc EXCEPT !.version = m.version, !.status = m.status,
                                      !.message = m.message]
                /\ pc' = "L97"
                /\ UNCHANGED <<parts, input, result, error>>
           ELSE Raise("BadResponse", <<>>)
    /\ UNCHANGED composeVars

\* lines 97-102: Status(int(...)) raises ValueError for a value that is no
\* member; a member with an exception raises it with the stripped message
ParseStatus ==
    /\ pc = "L97"
    /\ LET code == ToInt(loc.status)
           message == Strip(loc.message)
       IN  IF code \notin StatusCodes THEN Raise("ValueError", <<>>)
           ELSE IF RaisesOnStatus(code) THEN Raise(StatusException(code), message)
           ELSE /\ loc' = [loc EXCEPT !.version = Strip(loc.version), !.status_code = code,
                                      !.message = message]
                /\ pc' = "L104"
                /\ UNCHANGED <<parts, input, result, error>>
    /\ UNCHANGED composeVars

\* line 104
ParseHeaders ==
    /\ pc = "L104"
    /\ LET h == parse_headers(loc.hlines)
       IN  IF h.ok
           THEN /\ loc' = [loc EXCEPT !.headers = h.headers]
                /\ pc' = "L105"
                /\ UNCHANGED <<parts, input, result, error>>
           ELSE Raise(h.kind, <<>>)
    /\ UNCHANGED composeVars

\* lines 105-113: the body is handed to _parse_body and the Response built
ParseBody ==
    /\ pc = "L105"
    /\ LET b == parse_body(loc.body, loc.headers)
       IN  IF b.ok
           THEN /\ result' = Response(loc.version, loc.status_code, loc.message, b.body,
                                      loc.headers)
                /\ pc' = "done"
                /\ UNCHANGED <<parts, input, loc, error>>
           ELSE \E k \in InflateErrorKinds : Raise(k, <<>>)
    /\ UNCHANGED composeVars

NextParse ==
    \/ ParseSplit
    \/ ParseDecode
    \/ ParseMatch
    \/ ParseStatus
    \/ ParseHeaders
    \/ ParseBody

SpecParse == InitParse /\ [][NextParse]_vars

-----------------------------------------------------------------------------
(* Properties of parse() *)

Terminal == pc \in {"done", "failed"}

\* the input was built with a status line of the documented shape: no lead,
\* SPAMD/1.5, one blank, a decimal code, one blank, a message without line feed
WellShaped(p) ==
    /\ p.lead = <<>> /\ p.proto = SPAMD /\ p.version = V15 /\ p.sep1 = SP /\ p.sep2 = SP
    /\ p.code # <<>> /\ \A k \in DOMAIN p.code : IsDigit(p.code[k])
    /\ \A k \in DOMAIN p.msg : p.msg[k] # 10

\* ... and with header lines that parse and a body that inflates if compressed
WellFormed(p) ==
    /\ WellShaped(p)
    /\ p.hdrs \in GoodHeaderBlocks
    /\ (p.term /\ p.tail # <<>> /\ (\E k \in DOMAIN p.hdrs : p.hdrs[k][3] = 109))
           => Inflate(p.tail).ok

\* the kind raised is the registry's kind for the code, no other code has it,
\* and 76 has the protocol error
OwnKind(code, kind) ==
    /\ kind = StatusException(code)
    /\ \A d \in StatusCodes \ {code} : StatusException(d) # kind
    /\ code = 76 => kind = "ProtocolException"

\* C6 as stated: a well-formed response with one of the 17 codes parses to an
\* EX_OK Response (code 0) or raises the code's own error kind, whose payload
\* is the message text of the response.
C6_StatusOutcome ==
    (Terminal /\ WellFormed(parts) /\ ToInt(parts.code) \in StatusCodes) =>
        IF ToInt(parts.code) = 0
        THEN pc = "done" /\ result.present /\ result.status_code = 0 /\ ~error.present
        ELSE /\ pc = "failed" /\ ~result.present /\ error.present
             /\ OwnKind(ToInt(parts.code), error.kind)
             /\ error.payload = parts.msg

\* C6 amended: the payload is the message text stripped of leading and
\* trailing whitespace.
C6_StatusOutcomeStripped ==
    (Terminal /\ WellFormed(parts) /\ ToInt(parts.code) \in StatusCodes) =>
        IF ToInt(parts.code) = 0
        THEN pc = "done" /\ result.present /\ result.status_code = 0 /\ ~error.present
        ELSE /\ pc = "failed" /\ ~result.present /\ error.present
             /\ OwnKind(ToInt(parts.code), error.kind)
             /\ error.payload = Strip(parts.msg)

\* b'SPAMD/1.5 76 Remote error\r\n\r\n' has raised the protocol error
C6_Witness ==
    /\ input = <<83, 80, 65, 77, 68, 47, 49, 46, 53, 32, 55, 54, 32,
                 82, 101, 109, 111, 116, 101, 32, 101, 114, 114, 111, 114, 13, 10, 13, 10>>
    /\ pc = "failed"
    /\ error = Raised("ProtocolException",
                      <<82, 101, 109, 111, 116, 101, 32, 101, 114, 114, 111, 114>>)

\* C7: a response whose status line has the shape but whose code is none of
\* the 17 fails with BadResponse.
C7_UnknownIsBadResponse ==
    (Terminal /\ WellShaped(parts) /\ ToInt(parts.code) \notin StatusCodes) =>
        pc = "failed" /\ error.kind = "BadResponse"

\* the first line of a buffer: what precedes its first CRLF
FirstLine(buf) == IF Find(buf, CRLF) = 0 THEN buf ELSE SubSeq(buf, 1, Find(buf, CRLF) - 1)

AllSpace(t, i, j) == \A k \in i..j : IsSpace(t[k])
AllDigits(t, i, j) == \A k \in i..j : IsDigit(t[k])

\* the text has the form: whitespace*, SPAMD/, digits . digits, whitespace+,
\* digits, whitespace+, free text.  a..f are the last positions of the fields.
HasForm(t) ==
    \E a \in 0..Len(t) :
        /\ AllSpace(t, 1, a)
        /\ MatchAt(t, <<83, 80, 65, 77, 68, 47>>, a + 1)
        /\ \E b \in (a + 7)..Len(t) :
            /\ AllDigits(t, a + 7, b)
            /\ b + 1 <= Len(t) /\ t[b + 1] = 46
            /\ \E c \in (b + 2)..Len(t) :
                /\ AllDigits(t, b + 2, c)
                /\ \E d \in (c + 1)..Len(t) :
                    /\ AllSpace(t, c + 1, d)
                    /\ \E e \in (d + 1)..Len(t) :
                        /\ AllDigits(t, d + 1, e)
                        /\ \E f \in (e + 1)..Len(t) : AllSpace(t, e + 1, f)

\* C8: a buffer whose first line has not the form fails with BadResponse and
\* yields no Response.
C8_MalformedIsBadResponse ==
    (Terminal /\ ~(Utf8Decode(FirstLine(input)).ok
                   /\ HasForm(Utf8Decode(FirstLine(input)).text))) =>
        pc = "failed" /\ error.kind = "BadResponse" /\ ~result.present

\* the head parse() took: the first line and the header lines, CRLF between
HeadOf(l) == l.first \o Concat([k \in DOMAIN l.hlines |-> CRLF \o l.hlines[k]])

\* C9: the input is split at its first CRLF CRLF: the lines come from what
\* precedes it, the body is every byte after it (absent when there is none),
\* and that body reaches the Response unchanged unless a Compress header has
\* it inflated; the EX_OK example parses to message EX_OK and body hello.
C9_SplitAtFirstBlankLine ==
    pc \in {"L87", "L90", "L97", "L104", "L105", "done", "failed"} =>
        /\ \A i \in 1..Len(HeadOf(loc)) : ~MatchAt(input, <<13, 10, 13, 10>>, i)
        /\ \A i \in 1..Len(loc.first) : ~MatchAt(loc.first, CRLF, i)
        /\ \A k \in DOMAIN loc.hlines :
               \A i \in 1..Len(loc.hlines[k]) : ~MatchAt(loc.hlines[k], CRLF, i)
        /\ IF loc.body.present
           THEN input = HeadOf(loc) \o <<13, 10, 13, 10>> \o loc.body.bytes
           ELSE input = HeadOf(loc)
        /\ (pc = "done" /\ ~HasCompress(result.headers)) => result.body = loc.body
        /\ (Terminal /\ input = <<83, 80, 65, 77, 68, 47, 49, 46, 53, 32, 48, 32, 69, 88, 95,
                                  79, 75, 13, 10, 67, 111, 110, 116, 101, 110, 116, 45, 108,
                                  101, 110, 103, 116, 104, 58, 32, 53, 13, 10, 13, 10,
                                  104, 101, 108, 108, 111>>) =>
               /\ pc = "done" /\ result.status_code = 0
               /\ result.message = <<69, 88, 95, 79, 75>>
               /\ result.body = Bytes(<<104, 101, 108, 108, 111>>)

\* a Response whose body itself holds CRLF CRLF
C9_Witness ==
    /\ pc = "done"
    /\ result.body = Bytes(<<97, 13, 10, 13, 10, 98>>)
    /\ Len(loc.hlines) = 2

\* the order of parse()'s statements
Rank(p) ==
    CASE p = "L84" -> 1 [] p = "L87" -> 2 [] p = "L90" -> 3 [] p = "L97" -> 4
      [] p = "L104" -> 5 [] p = "L105" -> 6 [] p = "done" -> 7 [] p = "failed" -> 7
      [] OTHER -> 0

\* what C10 says of each state
C10_State ==
    /\ result.present => pc = "done" /\ result.status_code = 0 /\ ~error.present
    /\ pc = "done" => result.present
    /\ pc = "failed" => error.present /\ ~result.present
    /\ pc \in {"L104", "L105"} => loc.status_code = 0
    /\ (Terminal /\ WellShaped(parts) /\ ToInt(parts.code) \in StatusCodes \ {0}) =>
           pc = "failed" /\ error.kind = StatusException(ToInt(parts.code))

\* C10: parse() only moves forward; a known non-OK status raises its own
\* error whatever the header lines and the body are; every failure raises
\* without a Response, and a Response always has status EX_OK.
C10_StatusBeforeHeaders ==
    /\ []C10_State
    /\ [][Rank(pc') > Rank(pc) /\ (result.present => result' = result)]_vars

\* a non-OK status (76) raised over a malformed header line and a body
C10_Witness ==
    /\ pc = "failed"
    /\ error.kind = "ProtocolException"
    /\ parts.hdrs \in BadHeaderBlocks
    /\ parts.tail = <<104, 101, 108, 108, 111>>

=============================================================================
